---- MODULE Spec2Model ----
(***************************************************************************)
(* Model of tracing-tools (src/src/lib.rs): SyncTracingTask and            *)
(* TracingTask wrap a callable / a future with a tracing span, emit a      *)
(* start event for long-lived tasks, time the wrapped operation, emit one  *)
(* completion event and hand the operation's Result back.                  *)
(*                                                                         *)
(* Tasks are executed by an environment of threads.  A sync task runs its  *)
(* instrumented closure on one thread; an async task is polled, possibly   *)
(* on a different thread after each suspension.  Each statement of the     *)
(* wrapper is one step, so steps of different tasks interleave.            *)
(***************************************************************************)
EXTENDS Integers, Sequences, FiniteSets

\* ---------------------------------------------------------------- bounds
NTasks == 2
NThreads == 2
MaxTime == 1
MaxVal == 2
MaxPolls == 2
MaxLen == 8

Tasks == 1..NTasks
Threads == 1..NThreads
Values == 1..MaxVal

VARIABLES
    pc,             \* position of each task in its life cycle / wrapper body
    kind,           \* "none" | "sync" | "async"
    ctor,           \* the constructor that built the task
    is_long_lived,  \* the struct field
    t,              \* the wrapper's local `t` (start Instant), -1 = not taken
    r,              \* the wrapper's local `r` (Result of the wrapped operation)
    ret,            \* value of the wrapper's return expression
    produced,       \* what the wrapped operation itself produced
    on,             \* thread the task is executing on, 0 = none
    stack,          \* per thread: stack of entered spans (span id = task id)
    events,         \* the subscriber's log, in emission order
    now,            \* the monotonic clock behind Instant::now()
    runs,           \* times the wrapped operation was started
    opTime,         \* <<begin, end>> times of the wrapped operation, -1 = not yet
    polls,          \* polls of the wrapped future
    wpolls,         \* polls of the instrumented future
    lastPoll,       \* <<wrapped, instrumented>> outcome of the latest poll
    polledOn,       \* threads that have polled the instrumented future
    rejected,       \* a poll after completion was rejected (panic)
    cf_pc,          \* clean_fn: "off" | "split" | "loop" | "done"
    cf_s,           \* clean_fn: the argument s
    cf_name,        \* clean_fn: the local `name`
    cf_i,           \* clean_fn: index of the next character of name.chars()
    cf_skip,        \* clean_fn: the local `skip`
    cf_final,       \* clean_fn: the local `final_name`
    cf_pushed       \* clean_fn: <<index in name, skip>> of every push

cfVars == <<cf_pc, cf_s, cf_name, cf_i, cf_skip, cf_final, cf_pushed>>

vars == <<pc, kind, ctor, is_long_lived, t, r, ret, produced, on, stack, events,
          now, runs, opTime, polls, wpolls, lastPoll, polledOn, rejected, cfVars>>

\* ------------------------------------------------------- Result / Option
None == [tag |-> "None", v |-> 0]
Some(x) == [tag |-> "Some", v |-> x]
Ok(x) == [tag |-> "Ok", v |-> x]
Err(e) == [tag |-> "Err", v |-> e]
Panic == [tag |-> "Panic", v |-> 0]

Results == {Ok(x) : x \in Values} \cup {Err(e) : e \in Values}

\* a test of the wrong variant
IsErrInverted(res) == res.tag = "Ok"

\* Result::is_err
IsErr(res) == res.tag = "Err"

\* Result::err : Option<E>
ResultErr(res) == IF res.tag = "Err" THEN Some(res.v) ELSE None

\* Option::unwrap : panics on None
OptionUnwrap(o) == IF o.tag = "Some" THEN o.v ELSE -1

\* Result::unwrap : panics on Err
ResultUnwrap(res) == IF res.tag = "Ok" THEN res.v ELSE -1

\* ------------------------------------------------------------- span stack
\* one process-wide current span instead of one per thread
CurrentSpanShared(th) ==
    IF \A o \in Threads : stack[o] = <<>> THEN 0
    ELSE LET o == CHOOSE x \in Threads :
                      stack[x] # <<>> /\ \A y \in Threads : y < x => stack[y] = <<>>
         IN stack[o][Len(stack[o])]

\* the span that is current on thread th (0: no span entered)
CurrentSpan(th) ==
    IF stack[th] = <<>> THEN 0 ELSE stack[th][Len(stack[th])]

\* Span::entered / Span::enter : the span becomes the current one
Enter(s, tk) == Append(s, tk)

\* a guard that is leaked instead of dropped
ExitLeaked(s) == s

\* drop of the Entered guard : the span is exited
Exit(s) == SubSeq(s, 1, Len(s) - 1)

Idle(th) == \A tk \in Tasks : on[tk] # th

\* ----------------------------------------------------------------- clock
\* an elapsed time computed as start minus now
ElapsedReversed(start) == IF start >= now THEN start - now ELSE 0

\* Instant::elapsed
Elapsed(start) == IF now >= start THEN now - start ELSE 0

\* ---------------------------------------------------------------- events
\* info!("Starting...")
StartEvent(tk) ==
    [task |-> tk, span |-> CurrentSpan(on[tk]),
     msg |-> "Starting...", level |-> "INFO", elapsed |-> -1, error |-> 0,
     at |-> -1]

\* a failure event that leaves out the error field
FailureEventNoError(tk, err) ==
    [task |-> tk, span |-> CurrentSpan(on[tk]),
     msg |-> "Finished with", level |-> "ERROR", elapsed |-> Elapsed(t[tk]),
     error |-> 0, at |-> now]

\* error!(error = ?err, elapsed = ?t.elapsed(), "Finished with")
FailureEvent(tk, err) ==
    [task |-> tk, span |-> CurrentSpan(on[tk]),
     msg |-> "Finished with", level |-> "ERROR", elapsed |-> Elapsed(t[tk]),
     error |-> err, at |-> now]

\* info!(elapsed = ?t.elapsed(), "Finished [OK]...")
SuccessEvent(tk) ==
    [task |-> tk, span |-> CurrentSpan(on[tk]),
     msg |-> "Finished [OK]...", level |-> "INFO", elapsed |-> Elapsed(t[tk]),
     error |-> 0, at |-> now]

\* a wrapper without a start event
StartEventsNever(tk) == <<>>

\* a wrapper that ignores the longevity flag
StartEventsAlways(tk) == <<StartEvent(tk)>>

\* `if is_long_lived { info!("Starting..."); }`
StartEvents(tk) == IF is_long_lived[tk] THEN <<StartEvent(tk)>> ELSE <<>>

\* a wrapper whose error branch lacks the early return and falls through
FinishEventsFallThrough(tk) ==
    IF IsErr(r[tk])
    THEN <<FailureEvent(tk, OptionUnwrap(ResultErr(r[tk]))), SuccessEvent(tk)>>
    ELSE <<SuccessEvent(tk)>>

\* the events of the tail of the wrapper body: the error branch returns early
FinishEvents(tk) ==
    IF IsErr(r[tk])
    THEN <<FailureEvent(tk, OptionUnwrap(ResultErr(r[tk])))>>
    ELSE <<SuccessEvent(tk)>>

\* a wrapper that logs the error and then reports success
FailureReturnSwallowed(err) == Ok(err)

\* `return Err(err)`
FailureReturn(err) == IF err = -1 THEN Panic ELSE Err(err)

\* a wrapper that rebuilds the success value instead of moving it out of r
SuccessReturnRebuilt(res) == Ok(1)

\* `Ok(r.unwrap())`
SuccessReturn(res) == IF ResultUnwrap(res) = -1 THEN Panic ELSE Ok(ResultUnwrap(res))

\* value of the wrapper's return expression, given its local r
FinishResult(res) ==
    IF IsErr(res) THEN FailureReturn(OptionUnwrap(ResultErr(res)))
    ELSE SuccessReturn(res)

\* ------------------------------------------------------ order of the body
\* a wrapper body whose start event comes after the completion event
SuccStartLast(p) ==
    CASE p = "ready" -> "stamp"
      [] p = "stamp" -> "call"
      [] p = "check" -> "start"
      [] p = "start" -> "ret"
      [] OTHER -> "done"

\* a wrapper body that yields to the executor after its start event
SuccYieldAfterStart(p) ==
    CASE p = "ready" -> "start"
      [] p = "start" -> "pending"
      [] p = "stamp" -> "call"
      [] p = "check" -> "ret"
      [] OTHER -> "done"

\* the statement that follows statement p in the wrapper body
Succ(p) ==
    CASE p = "ready" -> "start"
      [] p = "start" -> "stamp"
      [] p = "stamp" -> "call"
      [] p = "check" -> "ret"
      [] OTHER -> "done"

\* a closure that may be called again after it has returned (dyn Fn)
CallableAgain(tk) == kind[tk] = "sync" /\ pc[tk] \in {"ready", "done"}

\* the boxed closure is FnOnce: it can be called while it has not been called
Callable(tk) == kind[tk] = "sync" /\ pc[tk] = "ready"

\* a future may be polled before its first poll and while it is suspended
Pollable(tk) == kind[tk] = "async" /\ pc[tk] \in {"ready", "suspended"}

\* ------------------------------------------------------------------ state
Init ==
    /\ pc = [tk \in Tasks |-> "none"]
    /\ kind = [tk \in Tasks |-> "none"]
    /\ ctor = [tk \in Tasks |-> "none"]
    /\ is_long_lived = [tk \in Tasks |-> FALSE]
    /\ t = [tk \in Tasks |-> -1]
    /\ r = [tk \in Tasks |-> None]
    /\ ret = [tk \in Tasks |-> None]
    /\ produced = [tk \in Tasks |-> None]
    /\ on = [tk \in Tasks |-> 0]
    /\ stack = [th \in Threads |-> <<>>]
    /\ events = <<>>
    /\ now = 0
    /\ runs = [tk \in Tasks |-> 0]
    /\ opTime = [tk \in Tasks |-> <<-1, -1>>]
    /\ polls = [tk \in Tasks |-> 0]
    /\ wpolls = [tk \in Tasks |-> 0]
    /\ lastPoll = [tk \in Tasks |-> <<"none", "none">>]
    /\ polledOn = [tk \in Tasks |-> {}]
    /\ rejected = [tk \in Tasks |-> FALSE]
    /\ cf_pc = "off"
    /\ cf_s = <<>>
    /\ cf_name = <<>>
    /\ cf_i = 0
    /\ cf_skip = 0
    /\ cf_final = <<>>
    /\ cf_pushed = {}

\* tasks are numbered in the order of their construction
NextToBuild(tk) == pc[tk] = "none" /\ \A o \in Tasks : o < tk => pc[o] # "none"

\* SyncTracingTask::new / TracingTask::new
New(tk, k) ==
    /\ NextToBuild(tk)
    /\ pc' = [pc EXCEPT ![tk] = "new"]
    /\ kind' = [kind EXCEPT ![tk] = k]
    /\ ctor' = [ctor EXCEPT ![tk] = "new"]
    /\ is_long_lived' = [is_long_lived EXCEPT ![tk] = TRUE]
    /\ UNCHANGED <<cfVars, t, r, ret, produced, on, stack, events, now, runs, opTime, polls,
                   wpolls, lastPoll, polledOn, rejected>>

\* SyncTracingTask::new_short_lived / TracingTask::new_short_lived
NewShortLived(tk, k) ==
    /\ NextToBuild(tk)
    /\ pc' = [pc EXCEPT ![tk] = "new"]
    /\ kind' = [kind EXCEPT ![tk] = k]
    /\ ctor' = [ctor EXCEPT ![tk] = "new_short_lived"]
    /\ is_long_lived' = [is_long_lived EXCEPT ![tk] = FALSE]
    /\ UNCHANGED <<cfVars, t, r, ret, produced, on, stack, events, now, runs, opTime, polls,
                   wpolls, lastPoll, polledOn, rejected>>

\* an instrument() that takes the timestamp itself, outside the closure / block
InstrumentEager(tk) ==
    /\ pc[tk] = "new"
    /\ pc' = [pc EXCEPT ![tk] = "ready"]
    /\ t' = [t EXCEPT ![tk] = now]
    /\ UNCHANGED <<cfVars, kind, ctor, is_long_lived, r, ret, produced, on, stack,
                   events, now, runs, opTime, polls, wpolls, lastPoll, polledOn,
                   rejected>>

\* instrument(self): builds the closure / the Instrumented future, runs nothing
Instrument(tk) ==
    /\ pc[tk] = "new"
    /\ pc' = [pc EXCEPT ![tk] = "ready"]
    /\ UNCHANGED <<cfVars, kind, ctor, is_long_lived, t, r, ret, produced, on, stack, events,
                   now, runs, opTime, polls, wpolls, lastPoll, polledOn, rejected>>

\* the caller calls the boxed closure on thread th: `span.entered()`
Invoke(tk, th) ==
    /\ Callable(tk)
    /\ Idle(th)
    /\ on' = [on EXCEPT ![tk] = th]
    /\ stack' = [stack EXCEPT ![th] = Enter(stack[th], tk)]
    /\ pc' = [pc EXCEPT ![tk] = Succ("ready")]
    /\ UNCHANGED <<cfVars, kind, ctor, is_long_lived, t, r, ret, produced, events, now, runs, opTime,
                   polls, wpolls, lastPoll, polledOn, rejected>>

\* a span that is entered for the first poll only
PollEnterFirstOnly(s, tk, p) == IF p = "ready" THEN Enter(s, tk) ELSE s

\* span entered by Instrumented::poll for the poll that starts in state p
PollEnter(s, tk, p) == Enter(s, tk)

\* the executor polls the instrumented future on thread th:
\* Instrumented::poll enters the span, then polls the async block, which
\* starts at its beginning or resumes at its await
Poll(tk, th) ==
    /\ Pollable(tk)
    /\ Idle(th)
    /\ on' = [on EXCEPT ![tk] = th]
    /\ stack' = [stack EXCEPT ![th] = PollEnter(stack[th], tk, pc[tk])]
    /\ pc' = [pc EXCEPT ![tk] = IF pc[tk] = "ready" THEN Succ("ready") ELSE "call"]
    /\ wpolls' = [wpolls EXCEPT ![tk] = @ + 1]
    /\ polledOn' = [polledOn EXCEPT ![tk] = @ \cup {th}]
    /\ lastPoll' = [lastPoll EXCEPT ![tk] = <<"none", "none">>]
    /\ UNCHANGED <<cfVars, kind, ctor, is_long_lived, t, r, ret, produced, events, now, runs, opTime,
                   polls, rejected>>

\* `if is_long_lived { info!("Starting..."); }`
Start(tk) ==
    /\ pc[tk] = "start"
    /\ events' = events \o StartEvents(tk)
    /\ pc' = [pc EXCEPT ![tk] = Succ("start")]
    /\ UNCHANGED <<cfVars, kind, ctor, is_long_lived, t, r, ret, produced, on, stack, now,
                   runs, opTime, polls, wpolls, lastPoll, polledOn, rejected>>

\* the Instant the wrapper of tk measures from
StartOf(tk) == now

\* `let t = Instant::now();`
Stamp(tk) ==
    /\ pc[tk] = "stamp"
    /\ t' = [t EXCEPT ![tk] = StartOf(tk)]
    /\ pc' = [pc EXCEPT ![tk] = Succ("stamp")]
    /\ UNCHANGED <<cfVars, kind, ctor, is_long_lived, r, ret, produced, on, stack, events,
                   now, runs, opTime, polls, wpolls, lastPoll, polledOn, rejected>>

\* `call()`: the wrapped callable is entered
CallBegin(tk) ==
    /\ pc[tk] = "call" /\ kind[tk] = "sync"
    /\ opTime' = [opTime EXCEPT ![tk] = <<now, -1>>]
    /\ runs' = [runs EXCEPT ![tk] = @ + 1]
    /\ pc' = [pc EXCEPT ![tk] = "running"]
    /\ UNCHANGED <<cfVars, kind, ctor, is_long_lived, t, r, ret, produced, on, stack,
                   events, now, polls, wpolls, lastPoll, polledOn, rejected>>

\* `let r = call()`: the wrapped callable returns res
Call(tk, res) ==
    /\ pc[tk] = "running"
    /\ opTime' = [opTime EXCEPT ![tk] = <<opTime[tk][1], now>>]
    /\ r' = [r EXCEPT ![tk] = res]
    /\ produced' = [produced EXCEPT ![tk] = res]
    /\ pc' = [pc EXCEPT ![tk] = "check"]
    /\ UNCHANGED <<cfVars, runs, kind, ctor, is_long_lived, t, ret, on, stack, events, now, polls,
                   wpolls, lastPoll, polledOn, rejected>>

\* `future.await`: a poll of the wrapped future that returns Poll::Ready(res)
AwaitReady(tk, res) ==
    /\ pc[tk] = "call" /\ kind[tk] = "async"
    /\ opTime' = [opTime EXCEPT ![tk] = <<IF opTime[tk][1] = -1 THEN now ELSE opTime[tk][1], now>>]
    /\ runs' = [runs EXCEPT ![tk] = 1]
    /\ polls' = [polls EXCEPT ![tk] = @ + 1]
    /\ r' = [r EXCEPT ![tk] = res]
    /\ produced' = [produced EXCEPT ![tk] = res]
    /\ lastPoll' = [lastPoll EXCEPT ![tk] = <<"ready", "none">>]
    /\ pc' = [pc EXCEPT ![tk] = "check"]
    /\ UNCHANGED <<cfVars, kind, ctor, is_long_lived, t, ret, on, stack, events, now, wpolls,
                   polledOn, rejected>>

\* `future.await`: a poll of the wrapped future that returns Poll::Pending;
\* the async block returns Pending to Instrumented::poll
AwaitPending(tk) ==
    /\ pc[tk] = "call" /\ kind[tk] = "async"
    /\ polls[tk] + 1 < MaxPolls
    /\ opTime' = [opTime EXCEPT ![tk] = <<IF opTime[tk][1] = -1 THEN now ELSE opTime[tk][1], -1>>]
    /\ runs' = [runs EXCEPT ![tk] = 1]
    /\ polls' = [polls EXCEPT ![tk] = @ + 1]
    /\ lastPoll' = [lastPoll EXCEPT ![tk] = <<"pending", "none">>]
    /\ pc' = [pc EXCEPT ![tk] = "pending"]
    /\ UNCHANGED <<cfVars, kind, ctor, is_long_lived, t, r, ret, produced, on, stack, events,
                   now, wpolls, polledOn, rejected>>

\* Instrumented::poll returns Poll::Pending: its span guard is dropped
Suspend(tk) ==
    /\ pc[tk] = "pending"
    /\ stack' = [stack EXCEPT ![on[tk]] = Exit(stack[on[tk]])]
    /\ on' = [on EXCEPT ![tk] = 0]
    /\ lastPoll' = [lastPoll EXCEPT ![tk][2] = "pending"]
    /\ pc' = [pc EXCEPT ![tk] = "suspended"]
    /\ UNCHANGED <<cfVars, kind, ctor, is_long_lived, t, r, ret, produced, events, now, runs, opTime,
                   polls, wpolls, polledOn, rejected>>

\* a span exited by an explicit call on the normal path only
ExitOnUnwindSkipped(s) == s

\* the span stack of a thread after a panic has unwound through the wrapper:
\* the guard (_span_guard / Instrumented's _enter) is dropped by the unwind
ExitOnUnwind(s) == Exit(s)

\* the wrapped callable / the wrapped future panics: the wrapper is unwound
OpPanic(tk) ==
    /\ \/ pc[tk] = "call" /\ kind[tk] = "async"
       \/ pc[tk] = "running"
    /\ opTime' = [opTime EXCEPT ![tk] = <<IF opTime[tk][1] = -1 THEN now ELSE opTime[tk][1], now>>]
    /\ runs' = [runs EXCEPT ![tk] = 1]
    /\ polls' = [polls EXCEPT ![tk] = IF kind[tk] = "async" THEN @ + 1 ELSE @]
    /\ produced' = [produced EXCEPT ![tk] = Panic]
    /\ stack' = [stack EXCEPT ![on[tk]] = ExitOnUnwind(stack[on[tk]])]
    /\ on' = [on EXCEPT ![tk] = 0]
    /\ lastPoll' = [lastPoll EXCEPT ![tk] =
                       IF kind[tk] = "async" THEN <<"panic", "panic">> ELSE @]
    /\ pc' = [pc EXCEPT ![tk] = "panicked"]
    /\ UNCHANGED <<cfVars, kind, ctor, is_long_lived, t, r, ret, events, now, wpolls,
                   polledOn, rejected>>

\* `if r.is_err() { let err = r.err().unwrap(); error!(..); return Err(err); }
\*  info!(..); Ok(r.unwrap())`: the completion event, then the return value
Finish(tk) ==
    /\ pc[tk] = "check"
    /\ events' = events \o FinishEvents(tk)
    /\ ret' = [ret EXCEPT ![tk] = FinishResult(r[tk])]
    /\ pc' = [pc EXCEPT ![tk] = Succ("check")]
    /\ UNCHANGED <<cfVars, kind, ctor, is_long_lived, t, r, produced, on, stack, now, runs, opTime,
                   polls, wpolls, lastPoll, polledOn, rejected>>

\* the closure returns / Instrumented::poll returns Poll::Ready: the span
\* guard is dropped and the caller receives the value
Return(tk) ==
    /\ pc[tk] = "ret"
    /\ stack' = [stack EXCEPT ![on[tk]] = Exit(stack[on[tk]])]
    /\ on' = [on EXCEPT ![tk] = 0]
    /\ lastPoll' = [lastPoll EXCEPT ![tk][2] =
                       IF kind[tk] = "async" THEN "ready" ELSE @]
    /\ pc' = [pc EXCEPT ![tk] =
                 IF ret[tk].tag = "Panic" THEN "panicked" ELSE Succ("ret")]
    /\ UNCHANGED <<cfVars, kind, ctor, is_long_lived, t, r, ret, produced, events, now, runs, opTime,
                   polls, wpolls, polledOn, rejected>>

\* a future whose drop emits a completion event
DropLogging(tk) ==
    /\ kind[tk] \in {"sync", "async"} /\ pc[tk] \in {"ready", "suspended"}
    /\ pc' = [pc EXCEPT ![tk] = "dropped"]
    /\ events' = Append(events,
                     [task |-> tk, span |-> tk, msg |-> "Finished with",
                      level |-> "ERROR", elapsed |-> 0, error |-> 0, at |-> now])
    /\ UNCHANGED <<cfVars, kind, ctor, is_long_lived, t, r, ret, produced, on,
                   stack, now, runs, opTime, polls, wpolls, lastPoll, polledOn,
                   rejected>>

\* the environment drops the closure before calling it, or the instrumented
\* future before its first poll or while it is suspended
Drop(tk) ==
    /\ Callable(tk) \/ Pollable(tk)
    /\ pc' = [pc EXCEPT ![tk] = "dropped"]
    /\ UNCHANGED <<cfVars, kind, ctor, is_long_lived, t, r, ret, produced, on, stack, events,
                   now, runs, opTime, polls, wpolls, lastPoll, polledOn, rejected>>

\* a poll of the instrumented future after it has completed: the async block
\* panics without running anything, the span entered for the poll is exited
RePoll(tk, th) ==
    /\ kind[tk] = "async" /\ pc[tk] \in {"done", "panicked"}
    /\ Idle(th)
    /\ ~rejected[tk]
    /\ rejected' = [rejected EXCEPT ![tk] = TRUE]
    /\ stack' = [stack EXCEPT ![th] = ExitOnUnwind(Enter(stack[th], tk))]
    /\ UNCHANGED <<cfVars, pc, kind, ctor, is_long_lived, t, r, ret, produced, on, events,
                   now, runs, opTime, polls, wpolls, lastPoll, polledOn>>

\* time passes
Tick ==
    /\ now < MaxTime
    /\ now' = now + 1
    /\ UNCHANGED <<cfVars, pc, kind, ctor, is_long_lived, t, r, ret, produced, on, stack,
                   events, runs, opTime, polls, wpolls, lastPoll, polledOn, rejected>>

Next ==
    \/ \E tk \in Tasks, k \in {"sync", "async"} : New(tk, k)
    \/ \E tk \in Tasks, k \in {"sync", "async"} : NewShortLived(tk, k)
    \/ \E tk \in Tasks : Instrument(tk)
    \/ \E tk \in Tasks, th \in Threads : Invoke(tk, th)
    \/ \E tk \in Tasks, th \in Threads : Poll(tk, th)
    \/ \E tk \in Tasks : Start(tk)
    \/ \E tk \in Tasks : Stamp(tk)
    \/ \E tk \in Tasks : CallBegin(tk)
    \/ \E tk \in Tasks, res \in Results : Call(tk, res)
    \/ \E tk \in Tasks, res \in Results : AwaitReady(tk, res)
    \/ \E tk \in Tasks : AwaitPending(tk)
    \/ \E tk \in Tasks : Suspend(tk)
    \/ \E tk \in Tasks : OpPanic(tk)
    \/ \E tk \in Tasks : Finish(tk)
    \/ \E tk \in Tasks : Return(tk)
    \/ \E tk \in Tasks : Drop(tk)
    \/ \E tk \in Tasks, th \in Threads : RePoll(tk, th)
    \/ Tick

Spec == Init /\ [][Next]_vars
\* =============================================================== clean_fn
\* characters of the identifiers given to clean_fn
Chars == {"a", ":", "<", ">"}

\* the identifiers: all strings of at most MaxLen characters
Strings == UNION {[1..n -> Chars] : n \in 0..MaxLen}

\* str::split("::") from position i on, cur being the segment in progress:
\* the separators are the leftmost non-overlapping occurrences of "::"
RECURSIVE SplitFrom(_, _, _)
SplitFrom(s, i, cur) ==
    IF i > Len(s) THEN <<cur>>
    ELSE IF i < Len(s) /\ s[i] = ":" /\ s[i + 1] = ":"
         THEN <<cur>> \o SplitFrom(s, i + 2, <<>>)
         ELSE SplitFrom(s, i + 1, Append(cur, s[i]))

\* `s.split("::").collect::<Vec<&str>>()`
Split(s) == SplitFrom(s, 1, <<>>)

\* a selection of the first two segments (the reversals left out)
TakeFirst2(segs) == SubSeq(segs, 1, IF Len(segs) < 2 THEN Len(segs) ELSE 2)

\* `.into_iter().rev().take(2).rev()`
TakeLast2(segs) == SubSeq(segs, IF Len(segs) < 2 THEN 1 ELSE Len(segs) - 1, Len(segs))

\* `.join("::")`
RECURSIVE Join(_)
Join(segs) ==
    IF Len(segs) = 0 THEN <<>>
    ELSE IF Len(segs) = 1 THEN segs[1]
    ELSE segs[1] \o <<":", ":">> \o Join(Tail(segs))

\* the argument of a call of clean_fn
InitClean ==
    /\ pc = [tk \in Tasks |-> "none"]
    /\ kind = [tk \in Tasks |-> "none"]
    /\ ctor = [tk \in Tasks |-> "none"]
    /\ is_long_lived = [tk \in Tasks |-> FALSE]
    /\ t = [tk \in Tasks |-> -1]
    /\ r = [tk \in Tasks |-> None]
    /\ ret = [tk \in Tasks |-> None]
    /\ produced = [tk \in Tasks |-> None]
    /\ on = [tk \in Tasks |-> 0]
    /\ stack = [th \in Threads |-> <<>>]
    /\ events = <<>>
    /\ now = 0
    /\ runs = [tk \in Tasks |-> 0]
    /\ opTime = [tk \in Tasks |-> <<-1, -1>>]
    /\ polls = [tk \in Tasks |-> 0]
    /\ wpolls = [tk \in Tasks |-> 0]
    /\ lastPoll = [tk \in Tasks |-> <<"none", "none">>]
    /\ polledOn = [tk \in Tasks |-> {}]
    /\ rejected = [tk \in Tasks |-> FALSE]
    /\ cf_pc = "split"
    /\ cf_s \in Strings
    /\ cf_name = <<>>
    /\ cf_i = 0
    /\ cf_skip = 0
    /\ cf_final = <<>>
    /\ cf_pushed = {}

taskVars == <<pc, kind, ctor, is_long_lived, t, r, ret, produced, on, stack,
              events, now, runs, opTime, polls, wpolls, lastPoll, polledOn,
              rejected>>

\* `let name = s.split("::")...join("::"); let mut final_name = ..; let mut skip = 0;`
CleanSplit ==
    /\ cf_pc = "split"
    /\ cf_name' = Join(TakeLast2(Split(cf_s)))
    /\ cf_final' = <<>>
    /\ cf_skip' = 0
    /\ cf_i' = 1
    /\ cf_pc' = "loop"
    /\ UNCHANGED <<taskVars, cf_s, cf_pushed>>

\* the test under which the loop pushes a character other than '<' and '>'
Keep(skip) == skip < 1

\* one iteration of `for c in name.chars()`
CleanChar ==
    /\ cf_pc = "loop"
    /\ cf_i <= Len(cf_name)
    /\ LET c == cf_name[cf_i]
       IN IF c = "<"
          THEN /\ cf_skip' = cf_skip + 1
               /\ UNCHANGED <<cf_final, cf_pushed>>
          ELSE IF c = ">"
          THEN /\ cf_skip' = cf_skip - 1
               /\ UNCHANGED <<cf_final, cf_pushed>>
          ELSE IF Keep(cf_skip)
          THEN /\ cf_final' = Append(cf_final, c)
               /\ cf_pushed' = cf_pushed \cup {<<cf_i, cf_skip>>}
               /\ UNCHANGED cf_skip
          ELSE UNCHANGED <<cf_final, cf_pushed, cf_skip>>
    /\ cf_i' = cf_i + 1
    /\ UNCHANGED <<taskVars, cf_pc, cf_s, cf_name>>

\* the loop is over: `final_name` is returned
CleanReturn ==
    /\ cf_pc = "loop"
    /\ cf_i > Len(cf_name)
    /\ cf_pc' = "done"
    /\ UNCHANGED <<taskVars, cf_s, cf_name, cf_i, cf_skip, cf_final, cf_pushed>>

NextClean ==
    \/ CleanSplit
    \/ CleanChar
    \/ CleanReturn

SpecClean == InitClean /\ [][NextClean]_vars

\* ============================================================== properties
IsStart(e) == e.msg = "Starting..."
IsSuccess(e) == e.msg = "Finished [OK]..."
IsFailure(e) == e.msg = "Finished with"
IsCompletion(e) == IsSuccess(e) \/ IsFailure(e)

StartIdx(tk) == {i \in DOMAIN events : events[i].task = tk /\ IsStart(events[i])}
CompletionIdx(tk) ==
    {i \in DOMAIN events : events[i].task = tk /\ IsCompletion(events[i])}

\* the instrumented operation has returned its result to the caller
Returned(tk) == pc[tk] = "done"

\* the body of the wrapper has passed its first statement
BodyPastStart(tk) ==
    \/ pc[tk] \in {"stamp", "call", "running", "pending", "suspended", "check",
                   "ret", "done", "panicked"}
    \/ pc[tk] = "dropped" /\ wpolls[tk] > 0

\* an execution of the instrumented operation began and is over
ExecutionOver(tk) ==
    \/ pc[tk] \in {"done", "panicked"}
    \/ pc[tk] = "dropped" /\ wpolls[tk] > 0

\* C1: whenever the wrapped operation (callable or future, long- or
\* short-lived) produced Ok(v), the caller of the instrumented operation
\* receives Ok(v) with the same v.
C1_SuccessPreserved ==
    \A tk \in Tasks :
        Returned(tk) /\ produced[tk].tag = "Ok" => ret[tk] = produced[tk]

C1_Witness ==
    \E a, b \in Tasks :
        /\ kind[a] = "sync" /\ kind[b] = "async"
        /\ is_long_lived[a] /\ ~is_long_lived[b]
        /\ Returned(a) /\ Returned(b)
        /\ produced[a] = Ok(MaxVal) /\ ret[a] = Ok(MaxVal)
        /\ produced[b] = Ok(MaxVal) /\ ret[b] = Ok(MaxVal)

\* C2: whenever the wrapped operation produced Err(e) the caller receives
\* Err(e) with the same e, and the caller receives an Err only when the
\* wrapped operation produced one.
C2_ErrorPreserved ==
    \A tk \in Tasks :
        Returned(tk) =>
            /\ produced[tk].tag = "Err" => ret[tk] = produced[tk]
            /\ ret[tk].tag = "Err" <=> produced[tk].tag = "Err"

C2_Witness ==
    \E a, b \in Tasks :
        /\ kind[a] = "sync" /\ kind[b] = "async"
        /\ Returned(a) /\ Returned(b)
        /\ produced[a] = Err(MaxVal) /\ ret[a] = Err(MaxVal)
        /\ produced[b] = Err(MaxVal) /\ ret[b] = Err(MaxVal)

\* C3 as stated: every execution that is over has emitted exactly one
\* completion event.
C3_ExactlyOnePerExecution ==
    \A tk \in Tasks :
        ExecutionOver(tk) => Cardinality(CompletionIdx(tk)) = 1

\* C3 as amended: no task ever has more than one completion event; an
\* execution that returned its result has exactly one; an execution ended by
\* a panic of the wrapped operation or by a drop of the future has none.
C3_OnePerCompletedExecution ==
    \A tk \in Tasks :
        /\ Cardinality(CompletionIdx(tk)) <= 1
        /\ Returned(tk) => Cardinality(CompletionIdx(tk)) = 1
        /\ pc[tk] \in {"panicked", "dropped"} => CompletionIdx(tk) = {}

C3_Witness ==
    \E a, b \in Tasks :
        /\ kind[a] = "sync" /\ Returned(a) /\ produced[a].tag = "Err"
        /\ Cardinality(CompletionIdx(a)) = 1
        /\ kind[b] = "async" /\ pc[b] = "dropped" /\ polls[b] > 0
        /\ CompletionIdx(b) = {}

\* C4: a task has a "Starting..." event once its execution has begun if and
\* only if it was built with new(); a task built with new_short_lived() never
\* has one; no task has more than one.
C4_StartIffLongLived ==
    \A tk \in Tasks :
        /\ Cardinality(StartIdx(tk)) <= 1
        /\ ctor[tk] = "new_short_lived" => StartIdx(tk) = {}
        /\ BodyPastStart(tk) => (StartIdx(tk) # {} <=> ctor[tk] = "new")

C4_Witness ==
    \E a, b \in Tasks :
        /\ ctor[a] = "new" /\ ctor[b] = "new_short_lived"
        /\ Returned(a) /\ Returned(b)
        /\ Cardinality(StartIdx(a)) = 1 /\ StartIdx(b) = {}
\* ------------------------------------------------------------------ C5-C7
\* C5: in the event log every start event of a task lies before every
\* completion event of the same task, and a long-lived task that has a
\* completion event has a start event before it.
C5_StartBeforeCompletion ==
    \A tk \in Tasks :
        /\ \A i \in StartIdx(tk), j \in CompletionIdx(tk) : i < j
        /\ is_long_lived[tk] /\ CompletionIdx(tk) # {} => StartIdx(tk) # {}

C5_Witness ==
    \E a, b \in Tasks :
        /\ a # b
        /\ StartIdx(a) # {} /\ CompletionIdx(a) # {}
        /\ StartIdx(b) # {} /\ CompletionIdx(b) # {}
        /\ \E i \in StartIdx(a), j \in CompletionIdx(a), k \in StartIdx(b) :
               i < k /\ k < j

\* the completion event that matches what the wrapped operation produced
MatchesOutcome(e, tk) ==
    IF produced[tk].tag = "Err"
    THEN /\ IsFailure(e) /\ e.level = "ERROR"
         /\ e.error = produced[tk].v /\ e.elapsed >= 0
    ELSE /\ IsSuccess(e) /\ e.level = "INFO" /\ e.elapsed >= 0

\* C6: once the wrapper has its return value (and so before and after the
\* result is handed back) the log holds the completion event of the outcome:
\* an ERROR "Finished with" event with the error and the elapsed time and no
\* success event after a failure, an INFO "Finished [OK]..." event with the
\* elapsed time and no failure event after a success.
C6_CompletionMatchesOutcome ==
    \A tk \in Tasks :
        /\ pc[tk] \in {"ret", "done"} =>
               /\ CompletionIdx(tk) # {}
               /\ \A i \in CompletionIdx(tk) : MatchesOutcome(events[i], tk)
               /\ ret[tk] = produced[tk]
        /\ pc[tk] \in {"start", "stamp", "call", "running", "pending", "suspended",
                     "check"}
               => CompletionIdx(tk) = {}

C6_Witness ==
    \E a, b \in Tasks :
        /\ Returned(a) /\ produced[a] = Err(MaxVal)
        /\ \E i \in CompletionIdx(a) :
               IsFailure(events[i]) /\ events[i].error = MaxVal
        /\ Returned(b) /\ produced[b].tag = "Ok"
        /\ \E i \in CompletionIdx(b) : IsSuccess(events[i])

\* the life-cycle state of a task
Phase(tk) ==
    CASE pc[tk] = "none" -> "Unbuilt"
      [] pc[tk] \in {"new", "ready"} -> "Constructed"
      [] pc[tk] \in {"start", "stamp", "call", "running", "pending", "suspended",
                     "check", "ret"} -> "Running"
      [] pc[tk] = "done" /\ ret[tk].tag = "Ok" -> "CompletedSuccess"
      [] pc[tk] = "done" -> "CompletedFailure"
      [] pc[tk] = "panicked" -> "Panicked"
      [] OTHER -> "Dropped"

Terminal(tk) == Phase(tk) \in {"CompletedSuccess", "CompletedFailure", "Panicked", "Dropped"}

PhaseSteps ==
    {<<"Unbuilt", "Constructed">>, <<"Constructed", "Running">>,
     <<"Running", "CompletedSuccess">>, <<"Running", "CompletedFailure">>,
     <<"Running", "Panicked">>, <<"Constructed", "Dropped">>,
     <<"Running", "Dropped">>}

EventsOf(tk) == SelectSeq(events, LAMBDA e : e.task = tk)

\* C7: a task only moves Constructed -> Running -> Completed(Success|Failure)
\* (or is abandoned by a panic or a drop); a task in a terminal state stays
\* in it with its run count, its events and its result unchanged; the
\* wrapped operation is never started twice and has been started exactly
\* once when the task has completed.
C7_RunOnce ==
    /\ [](\A tk \in Tasks : runs[tk] <= 1 /\ (Returned(tk) => runs[tk] = 1))
    /\ [][\A tk \in Tasks :
            /\ Phase(tk)' # Phase(tk) => <<Phase(tk), Phase(tk)'>> \in PhaseSteps
            /\ Terminal(tk) =>
                  /\ pc'[tk] = pc[tk] /\ runs'[tk] = runs[tk]
                  /\ ret'[tk] = ret[tk] /\ EventsOf(tk)' = EventsOf(tk)]_vars

C7_Witness ==
    \E a, b \in Tasks :
        /\ kind[a] = "sync" /\ Returned(a) /\ runs[a] = 1
        /\ kind[b] = "async" /\ Returned(b) /\ runs[b] = 1 /\ rejected[b]
\* ----------------------------------------------------------------- C8-C10
Range(s) == {s[i] : i \in DOMAIN s}

\* the span of tk is entered on no thread
NotEntered(tk) == \A th \in Threads : tk \notin Range(stack[th])

\* the span of tk is the current span of the thread that executes tk
SpanCurrent(tk) == on[tk] \in Threads /\ CurrentSpan(on[tk]) = tk

\* C8: while the instrumented closure of a sync task is between its entry and
\* its exit (start event, timestamp, call of the wrapped callable, completion
\* event, return) the task's span is the current span of its thread; every
\* event of the task is emitted inside the span; before the closure is called
\* and after it has exited by a return of Ok, a return of Err or an unwind,
\* the span is entered on no thread.
C8_SyncScope ==
    \A tk \in Tasks :
        kind[tk] = "sync" =>
            /\ pc[tk] \in {"start", "stamp", "call", "running", "check", "ret"}
                   => SpanCurrent(tk)
            /\ pc[tk] \in {"new", "ready", "done", "panicked", "dropped"} => NotEntered(tk)
            /\ \A i \in DOMAIN events : events[i].task = tk => events[i].span = tk

C8_Witness ==
    \E a, b \in Tasks :
        /\ kind[a] = "sync" /\ pc[a] = "panicked" /\ runs[a] = 1
        /\ StartIdx(a) # {} /\ NotEntered(a)
        /\ kind[b] = "sync" /\ Returned(b) /\ produced[b].tag = "Err"
        /\ NotEntered(b)

\* C9: whenever an async task is inside a poll (emitting its start event,
\* taking the timestamp, polling the wrapped future, emitting its completion
\* event or returning), in its first poll and in every later one and on
\* whichever thread the poll runs, the task's span is the current span of
\* that thread, and every event of the task is emitted inside the span.
C9_AsyncScope ==
    \A tk \in Tasks :
        kind[tk] = "async" =>
            /\ pc[tk] \in {"start", "stamp", "call", "pending", "check", "ret"}
                   => SpanCurrent(tk)
            /\ \A i \in DOMAIN events : events[i].task = tk => events[i].span = tk

C9_Witness ==
    \E a \in Tasks :
        /\ kind[a] = "async" /\ pc[a] = "ret"
        /\ polls[a] >= 2 /\ Cardinality(polledOn[a]) >= 2
        /\ SpanCurrent(a)
        /\ \E i \in StartIdx(a), j \in CompletionIdx(a) :
               events[i].span = a /\ events[j].span = a

\* the messages a task emits when it runs alone and returns its result
AloneMsgs(tk) ==
    (IF is_long_lived[tk] THEN <<"Starting...">> ELSE <<>>)
    \o (IF produced[tk].tag = "Err" THEN <<"Finished with">>
        ELSE <<"Finished [OK]...">>)

Msgs(s) == [i \in DOMAIN s |-> s[i].msg]

\* C10: under every interleaving of the tasks' steps, every event carries the
\* span of the task that emitted it, a task that has returned has exactly the
\* events it emits when run alone, and the elapsed value of every completion
\* event is the emission time minus the emitting task's own timestamp.
C10_Independent ==
    /\ \A i \in DOMAIN events : events[i].span = events[i].task
    /\ \A tk \in Tasks : Returned(tk) => Msgs(EventsOf(tk)) = AloneMsgs(tk)
    /\ \A i \in DOMAIN events :
           IsCompletion(events[i]) =>
               events[i].elapsed = events[i].at - t[events[i].task]

C10_Witness ==
    \E a, b \in Tasks :
        /\ a # b /\ kind[a] = "async" /\ kind[b] = "async"
        /\ polledOn[a] = polledOn[b] /\ Cardinality(polledOn[a]) = 1
        /\ Returned(a) /\ Returned(b) /\ polls[a] >= 2 /\ polls[b] >= 2
        /\ t[a] # t[b]
        /\ \E i \in StartIdx(a), j \in CompletionIdx(a), k \in StartIdx(b),
              l \in CompletionIdx(b) :
               /\ i < k /\ k < j /\ j < l
               /\ events[j].elapsed # events[l].elapsed
\* ---------------------------------------------------------------- C11-C12
\* C11: the elapsed value of a completion event is the time of its emission,
\* after the wrapped operation has completed, minus the task's timestamp; the
\* timestamp is taken after the start event (when there is one) and before
\* the wrapped operation begins; so elapsed is non-negative and at least the
\* time between the begin and the end of the wrapped operation, suspensions
\* included.
C11_Elapsed ==
    /\ \A i \in DOMAIN events :
           IsCompletion(events[i]) =>
               LET tk == events[i].task
               IN /\ t[tk] >= 0
                  /\ events[i].elapsed = events[i].at - t[tk]
                  /\ events[i].elapsed >= 0
                  /\ t[tk] <= opTime[tk][1]
                  /\ opTime[tk][1] <= opTime[tk][2]
                  /\ opTime[tk][2] <= events[i].at
                  /\ events[i].elapsed >= opTime[tk][2] - opTime[tk][1]
    /\ \A tk \in Tasks :
           /\ runs[tk] > 0 => t[tk] >= 0 /\ t[tk] <= opTime[tk][1]
           /\ t[tk] >= 0 /\ is_long_lived[tk] => StartIdx(tk) # {}

C11_Witness ==
    \E a, b \in Tasks :
        /\ kind[a] = "async" /\ Returned(a) /\ polls[a] >= 2
        /\ opTime[a][2] > opTime[a][1]
        /\ \E i \in CompletionIdx(a) : events[i].elapsed > 0
        /\ kind[b] = "sync" /\ Returned(b) /\ ~is_long_lived[b]
        /\ opTime[b][2] > opTime[b][1]
        /\ \E i \in CompletionIdx(b) : events[i].elapsed > 0

\* C12: the wrapper never panics by itself: the value it returns is never the
\* result of a failed unwrap, the outcome it examines is always Ok or Err,
\* every panic of an execution is a panic of the wrapped operation, every
\* error event carries an error of the wrapped operation, and it returns an
\* Err only when the wrapped operation produced that Err.
C12_NoOwnFailure ==
    \A tk \in Tasks :
        /\ ret[tk].tag \in {"None", "Ok", "Err"}
        /\ pc[tk] = "check" => r[tk].tag \in {"Ok", "Err"}
        /\ pc[tk] = "panicked" => produced[tk] = Panic
        /\ pc[tk] \in {"ret", "done"} /\ ret[tk].tag = "Err" => ret[tk] = produced[tk]
        /\ \A i \in CompletionIdx(tk) : events[i].error \in Values \cup {0}

C12_Witness ==
    \E a, b \in Tasks :
        /\ kind[a] = "async" /\ Returned(a)
        /\ produced[a].tag = "Err" /\ ret[a].tag = "Err"
        /\ pc[b] = "panicked" /\ produced[b] = Panic /\ ret[b] = None
\* -------------------------------------------------------------------- C13
\* an async task is inside a poll of its instrumented future
InPoll(tk) == pc[tk] \in {"start", "stamp", "call", "pending", "check", "ret"}

\* C13: a poll of the instrumented future that has returned reported what
\* the wrapped future reported in that same poll (pending for pending, ready
\* for ready), and outside a poll the instrumented future has been polled as
\* often as the wrapped one, so both have suspended equally often.
C13_NoExtraSuspension ==
    \A tk \in Tasks :
        kind[tk] = "async" =>
            /\ lastPoll[tk][2] # "none" => lastPoll[tk][2] = lastPoll[tk][1]
            /\ ~InPoll(tk) => wpolls[tk] = polls[tk]
            /\ pc[tk] = "suspended" => lastPoll[tk] = <<"pending", "pending">>
            /\ Returned(tk) => lastPoll[tk] = <<"ready", "ready">>

C13_Witness ==
    \E a, b \in Tasks :
        /\ kind[a] = "async" /\ pc[a] = "suspended"
        /\ lastPoll[a] = <<"pending", "pending">> /\ wpolls[a] = polls[a]
        /\ kind[b] = "async" /\ Returned(b) /\ polls[b] >= 2
        /\ wpolls[b] = polls[b] /\ lastPoll[b] = <<"ready", "ready">>
\* ---------------------------------------------------------------- C14-C16
NoBrackets(s) == \A i \in DOMAIN s : s[i] \notin {"<", ">"}

\* number of ':' that directly precede position p
RECURSIVE ColonsBefore(_, _)
ColonsBefore(s, p) ==
    IF p > 1 /\ s[p - 1] = ":" THEN 1 + ColonsBefore(s, p - 1) ELSE 0

\* the positions where a "::" separator of s starts
SepStarts(s) ==
    {p \in 1..(Len(s) - 1) :
        s[p] = ":" /\ s[p + 1] = ":" /\ ColonsBefore(s, p) % 2 = 0}

\* the last two "::"-separated segments of s with their separator: the part
\* of s after its last separator but one, s itself if it has fewer than two
LastTwoSegments(s) ==
    IF Cardinality(SepStarts(s)) < 2 THEN s
    ELSE LET last == CHOOSE p \in SepStarts(s) : \A q \in SepStarts(s) : q <= p
             prev == CHOOSE p \in SepStarts(s) \ {last} :
                         \A q \in SepStarts(s) \ {last} : q <= p
         IN SubSeq(s, prev + 2, Len(s))

\* nesting depth of '<' '>' annotations in front of position i of s
RECURSIVE NestingAt(_, _)
NestingAt(s, i) ==
    IF i <= 1 THEN 0
    ELSE LET d == NestingAt(s, i - 1)
         IN IF s[i - 1] = "<" THEN d + 1
            ELSE IF s[i - 1] = ">" /\ d > 0 THEN d - 1
            ELSE d

\* s without its annotations: the characters outside every '<...>'
RECURSIVE WithoutAnnotationsFrom(_, _)
WithoutAnnotationsFrom(s, i) ==
    IF i > Len(s) THEN <<>>
    ELSE (IF s[i] \notin {"<", ">"} /\ NestingAt(s, i) = 0 THEN <<s[i]>> ELSE <<>>)
         \o WithoutAnnotationsFrom(s, i + 1)

WithoutAnnotations(s) == WithoutAnnotationsFrom(s, 1)

\* every '>' of s closes a '<' and every '<' is closed
Balanced(s) ==
    /\ \A i \in DOMAIN s : s[i] = ">" => NestingAt(s, i) > 0
    /\ NestingAt(s, Len(s) + 1) = 0

\* s does not begin or end with a separator and has no two adjacent ones
NoEmptySegment(s) ==
    /\ s # <<>>
    /\ \A p \in SepStarts(s) :
           p > 1 /\ p + 1 < Len(s) /\ p + 2 \notin SepStarts(s)

\* C14: for an identifier without '<' and '>' clean_fn returns its last two
\* "::"-separated segments joined by "::", which is the identifier itself
\* when it has fewer than three segments.
C14_LastTwoSegments ==
    cf_pc = "done" /\ NoBrackets(cf_s) =>
        /\ cf_final = LastTwoSegments(cf_s)
        /\ Cardinality(SepStarts(cf_s)) < 2 => cf_final = cf_s

C14_Witness ==
    /\ cf_pc = "done" /\ NoBrackets(cf_s)
    /\ Cardinality(SepStarts(cf_s)) = 2
    /\ cf_s[1] = "a" /\ cf_s[4] = "a" /\ cf_s[Len(cf_s)] = "a"
    /\ cf_final = LastTwoSegments(cf_s) /\ Len(cf_final) = 4

\* C15: for an identifier whose annotations are balanced and whose cleaned
\* form has no empty segment, clean_fn returns the last two segments of the
\* identifier with its annotations removed.
C15_StripThenSelect ==
    cf_pc = "done" /\ Balanced(cf_s) /\ NoEmptySegment(WithoutAnnotations(cf_s)) =>
        cf_final = LastTwoSegments(WithoutAnnotations(cf_s))

\* C16: a character is pushed only while skip is exactly zero, the output
\* never holds '<' or '>', and no pushed character lies inside an annotation
\* of the string the loop runs over.
C16_KeptAtDepthZero ==
    /\ \A q \in cf_pushed : q[2] = 0
    /\ NoBrackets(cf_final)
    /\ \A q \in cf_pushed : NestingAt(cf_name, q[1]) = 0
\* ---------------------------------------------------------------- C17-C20
\* the wrapped operation has begun: the callable was entered / the future polled
OpBegun(tk) == runs[tk] > 0

\* C17: whenever the wrapped operation of a long-lived task has begun (the
\* callable was entered or the future was polled for the first time), the
\* task's "Starting..." event is already in the log.
C17_StartBeforeWork ==
    \A tk \in Tasks :
        is_long_lived[tk] /\ (OpBegun(tk) \/ opTime[tk][1] >= 0) => StartIdx(tk) # {}

C17_Witness ==
    \E a, b \in Tasks :
        /\ kind[a] = "sync" /\ is_long_lived[a] /\ pc[a] = "running"
        /\ StartIdx(a) # {} /\ CompletionIdx(a) = {}
        /\ kind[b] = "async" /\ is_long_lived[b] /\ pc[b] = "pending"
        /\ polls[b] = 1 /\ StartIdx(b) # {}

\* C18: an instrumented future that was dropped has no completion event, the
\* drop itself changes nothing but the life cycle of the task (no event, no
\* span entered or exited, no timestamp, no result), and a dropped task stays
\* dropped with its events unchanged.
C18_DropIsSilent ==
    /\ [](\A tk \in Tasks : pc[tk] = "dropped" => CompletionIdx(tk) = {})
    /\ [][\A tk \in Tasks :
            /\ pc[tk] # "dropped" /\ pc'[tk] = "dropped" =>
                  /\ events' = events /\ stack' = stack /\ on' = on
                  /\ t' = t /\ ret' = ret /\ runs' = runs
            /\ pc[tk] = "dropped" =>
                  pc'[tk] = "dropped" /\ EventsOf(tk)' = EventsOf(tk)]_vars

C18_Witness ==
    \E a, b \in Tasks :
        /\ kind[a] = "async" /\ pc[a] = "dropped" /\ polls[a] >= 1
        /\ is_long_lived[a] /\ StartIdx(a) # {} /\ CompletionIdx(a) = {}
        /\ Returned(b) /\ \E i \in CompletionIdx(b), j \in StartIdx(a) : j < i

\* C19: a task that has been constructed, instrumented or not, and whose
\* closure has not been called / whose future has not been polled has emitted
\* no event, taken no timestamp, entered its span on no thread and run no
\* step of its wrapped operation.
C19_Lazy ==
    \A tk \in Tasks :
        pc[tk] \in {"new", "ready"} =>
            /\ EventsOf(tk) = <<>>
            /\ t[tk] = -1
            /\ NotEntered(tk) /\ on[tk] = 0
            /\ runs[tk] = 0 /\ polls[tk] = 0 /\ wpolls[tk] = 0
            /\ opTime[tk] = <<-1, -1>>

C19_Witness ==
    \E a, b \in Tasks :
        /\ pc[a] = "ready" /\ kind[a] = "async" /\ is_long_lived[a]
        /\ EventsOf(a) = <<>> /\ t[a] = -1
        /\ Returned(b) /\ Len(events) >= 2 /\ now > 0

\* C20: the span of an async task is entered exactly once on the thread that
\* polls it while a poll is in progress and on no thread otherwise (suspended,
\* completed, panicked or dropped); a thread that polls nothing has no span
\* entered, so a task polled next on a thread starts outside every other
\* task's span.
C20_BalancedEnterExit ==
    /\ \A tk \in Tasks :
           kind[tk] = "async" =>
               /\ InPoll(tk) => on[tk] \in Threads /\ stack[on[tk]] = <<tk>>
               /\ ~InPoll(tk) => NotEntered(tk) /\ on[tk] = 0
    /\ \A th \in Threads : Idle(th) => stack[th] = <<>>

C20_Witness ==
    \E a, b \in Tasks :
        /\ kind[a] = "async" /\ pc[a] = "suspended" /\ NotEntered(a)
        /\ kind[b] = "async" /\ pc[b] = "call" /\ polls[b] = 0
        /\ on[b] \in polledOn[a] /\ stack[on[b]] = <<b>>
====
